---------------------------- MODULE Spec2Model ----------------------------
(***************************************************************************)
(* Autha account-profile service: the profile read pipeline                *)
(* (database::get_user + router::users::get) and the patch pipeline        *)
(* (router::users::patch) over the Cassandra user table and the Memcached  *)
(* cache.  Every request is a process that performs its store and cache    *)
(* round trips one at a time; the computation between two round trips is   *)
(* local to the request and is folded into the step that precedes it.      *)
(***************************************************************************)
EXTENDS Integers, Sequences, FiniteSets, TLC

VARIABLES
    users,   \* accounts.users : vanity -> rows returned by "WHERE vanity = ?"
    cache,   \* Memcached      : key -> Option<String> (serialized User)
    req,     \* the requests in flight, one record per request slot
    ttl      \* Memcached      : key -> time units an entry has left to live

vars == <<users, cache, req, ttl>>

-----------------------------------------------------------------------------
(* Option<T> and Result<T>                                                 *)

None == [some |-> FALSE]
Some(x) == [some |-> TRUE, val |-> x]
IsSome(o) == o.some

Ok(x) == [ok |-> TRUE, val |-> x]
Err(e) == [ok |-> FALSE, err |-> e]

-----------------------------------------------------------------------------
(* Strings                                                                 *)

Char(s, i) == SubSeq(s, i, i)

RECURSIVE Repeat(_, _)
Repeat(c, n) == IF n = 0 THEN "" ELSE c \o Repeat(c, n - 1)

Digits == {"0", "1", "2", "3", "4", "5", "6", "7", "8", "9"}

Letters ==
    {"a", "b", "c", "d", "e", "f", "g", "h", "i", "j", "k", "l", "m",
     "n", "o", "p", "q", "r", "s", "t", "u", "v", "w", "x", "y", "z",
     "A", "B", "C", "D", "E", "F", "G", "H", "I", "J", "K", "L", "M",
     "N", "O", "P", "Q", "R", "S", "T", "U", "V", "W", "X", "Y", "Z"}

\* the second character class of PASSWORD, with the "|" and "*" of the first
Specials ==
    {"|", "*", "$", "&", "+", ",", ":", ";", "=", "?", "@", "#", "'",
     "<", ">", ".", "^", "(", ")", "%", "!", "-"}

DigitVal(c) ==
    CASE c = "0" -> 0 [] c = "1" -> 1 [] c = "2" -> 2 [] c = "3" -> 3
      [] c = "4" -> 4 [] c = "5" -> 5 [] c = "6" -> 6 [] c = "7" -> 7
      [] c = "8" -> 8 [] c = "9" -> 9

\* str::parse::<i32>() of a string of digits
RECURSIVE ParseInt(_)
ParseInt(s) ==
    IF Len(s) = 0 THEN 0
    ELSE 10 * ParseInt(SubSeq(s, 1, Len(s) - 1)) + DigitVal(Char(s, Len(s)))

\* EMAIL = .+@.+.([a-zA-Z]{2,7})$   (not anchored at the start)
EMAIL_is_match(s) ==
    \E i \in 2..Len(s), k \in 2..7 :
        /\ Char(s, i) = "@"
        /\ Len(s) - k >= i + 2
        /\ \A j \in (Len(s) - k + 1)..Len(s) : Char(s, j) \in Letters

\* PASSWORD = ([0-9|*|]|[$&+,:;=?@#|'<>.^*()%!-])+   (not anchored)
PASSWORD_is_match(s) ==
    \E i \in 1..Len(s) : Char(s, i) \in Digits \cup Specials

\* BIRTH = ^\d{4}-(0[1-9]|1[0-2])-(0[1-9]|[12][0-9]|3[01])$
BIRTH_is_match(s) ==
    /\ Len(s) = 10
    /\ \A i \in {1, 2, 3, 4, 6, 7, 9, 10} : Char(s, i) \in Digits
    /\ Char(s, 5) = "-"
    /\ Char(s, 8) = "-"
    /\ \/ Char(s, 6) = "0" /\ Char(s, 7) # "0"
       \/ Char(s, 6) = "1" /\ Char(s, 7) \in {"0", "1", "2"}
    /\ \/ Char(s, 9) = "0" /\ Char(s, 10) # "0"
       \/ Char(s, 9) \in {"1", "2"}
       \/ Char(s, 9) = "3" /\ Char(s, 10) \in {"0", "1"}

\* birth.split('-') : the three parts of a string BIRTH matched
SplitDate(s) == <<SubSeq(s, 1, 4), SubSeq(s, 6, 7), SubSeq(s, 9, 10)>>

-----------------------------------------------------------------------------
(* crate::helpers (credential verifier, cipher, age)                       *)

\* helpers::hash : the salted digest of a password
hash(p) == [tag |-> "argon2", of |-> p]

\* helpers::hash_test(digest, candidate)
hash_test(digest, candidate) == digest = hash(candidate)

\* helpers::encrypt : reversible encryption of a PII plaintext
encrypt(x) == [tag |-> "fpe", of |-> x]

\* crypto::fpe_decrypt : Err on anything that is not a ciphertext
fpe_decrypt(c) == IF c.tag = "fpe" THEN Ok(c.of) ELSE Err("decrypt")

\* hex::encode(Keccak256(x)) : the deterministic index digest
keccak256_hex(x) == [tag |-> "keccak256", of |-> x]

\* the date the requests are served on
Today == [y |-> 2026, m |-> 11, d |-> 1]

\* helpers::get_age(year, month, day) : full years elapsed on Today
get_age(y, m, d) ==
    IF m < Today.m \/ (m = Today.m /\ d <= Today.d)
    THEN Today.y - y
    ELSE Today.y - y - 1

-----------------------------------------------------------------------------
(* Bounds and inputs                                                       *)

\* request slots (requests that can be in flight together)
NProc == 2
\* fields a patch body carries at most
MaxFields == 2

Proc == 1..NProc

\* "alice" has a row in accounts.users; "bob" has a row in no table
Vanity == {"alice", "bob"}

UsernameLimit == 16
BioLimit == 160
MinAge == 13

OldPassword == "OldPass1"
NewPassword == "NewPass2"
WeakPassword == "weakpass"
OldEmail == "alice@old.io"
NewEmail == "alice@new.io"
BadEmail == "alice.new.io"
OldBirth == "2000-01-01"
AdultBirth == "2013-11-01"
YoungBirth == "2023-01-01"
BadBirth == "1990-13-01"
OldName == "alice"
NewName == Repeat("n", UsernameLimit - 1)
LongName == Repeat("n", UsernameLimit)
NewBio == Repeat("b", BioLimit)
LongBio == Repeat("b", BioLimit + 1)

Opt(S) == {None} \cup {Some(x) : x \in S}

Fields(body) ==
    Cardinality({f \in DOMAIN body : IsSome(body[f])})

\* model::body::UserPatch, every field optional
AllBodies ==
    [password : Opt({OldPassword, NewPassword}),
     username : Opt({NewName, LongName}),
     bio : Opt({"", NewBio, LongBio}),
     email : Opt({NewEmail, BadEmail}),
     birthdate : Opt({AdultBirth, YoungBirth, BadBirth}),
     phone : Opt({"+33600000000"}),
     newpassword : Opt({NewPassword, WeakPassword})]

PatchBodies == {b \in AllBodies : Fields(b) <= MaxFields}

-----------------------------------------------------------------------------
(* The store and the cache                                                 *)

\* the row the signup path created for "alice"
AliceRow ==
    [username |-> OldName,
     avatar |-> None,
     bio |-> None,
     email |-> encrypt(OldEmail),
     password |-> hash(OldPassword),
     birthdate |-> Some(encrypt(OldBirth)),
     deleted |-> <<0>>,
     flags |-> <<0, 0, 0, 1>>]

\* accounts.bots : no bot is registered
bots == [v \in Vanity |-> << >>]

\* u32::from_be_bytes
from_be_bytes(b) == ((b[1] * 256 + b[2]) * 256 + b[3]) * 256 + b[4]

\* serde_json::to_string(&user) and serde_json::from_str
to_string(user) == [json |-> user]
from_str(data) == data.json

\* the User get_user builds when neither table has a row
EmptyUser ==
    [username |-> "", vanity |-> "", avatar |-> None, bio |-> None,
     email |-> None, birthdate |-> None, deleted |-> FALSE, flags |-> 0,
     verified |-> FALSE]

\* a text column decoded to Option<String>: null and "" are None
DecodeText(col) == IF ~IsSome(col) \/ col.val = "" THEN None ELSE col

\* the email field: decrypted only for the owner
DecodeEmail(row, vanity, requester) ==
    IF vanity = requester
    THEN LET r == fpe_decrypt(row.email)
         IN IF r.ok THEN Ok(Some(r.val)) ELSE r
    ELSE Ok(None)

\* the birthdate field: decrypted when the column is set
DecodeBirthdate(row, vanity, requester) ==
    IF ~IsSome(row.birthdate)
    THEN Ok(None)
    ELSE LET r == fpe_decrypt(row.birthdate.val)
         IN IF r.ok THEN Ok(Some(r.val)) ELSE r

\* mutant: the placeholder for no row keeps the vanity that was asked for
DecodeUserKeepsVanity(rows, vanity, requester) ==
    IF rows = << >>
    THEN Ok([EmptyUser EXCEPT !.vanity = vanity])
    ELSE LET row == rows[1]
         IN Ok([username |-> row.username,
                vanity |-> vanity,
                avatar |-> DecodeText(row.avatar),
                bio |-> DecodeText(row.bio),
                email |-> None,
                birthdate |-> None,
                deleted |-> row.deleted # <<0>>,
                flags |-> from_be_bytes(row.flags),
                verified |-> FALSE])

\* get_user, the None arm after the queries: rows -> Result<User>
DecodeUser(rows, vanity, requester) ==
    IF rows = << >>
    THEN Ok(EmptyUser)
    ELSE LET row == rows[1]
             email == DecodeEmail(row, vanity, requester)
             birthdate == DecodeBirthdate(row, vanity, requester)
         IN IF ~email.ok THEN email
            ELSE IF ~birthdate.ok THEN birthdate
            ELSE Ok([username |-> row.username,
                     vanity |-> vanity,
                     avatar |-> DecodeText(row.avatar),
                     bio |-> DecodeText(row.bio),
                     email |-> email.val,
                     birthdate |-> birthdate.val,
                     deleted |-> row.deleted # <<0>>,
                     flags |-> from_be_bytes(row.flags),
                     verified |-> FALSE])

\* the user query, then the bot query when it returned no row
QueryUserOrBot(vanity) ==
    IF users[vanity] # << >> THEN users[vanity] ELSE bots[vanity]

-----------------------------------------------------------------------------
(* Responses                                                               *)

Reply(status, body) == [status |-> status, body |-> body]
ErrorBody(error, message) == [error |-> error, message |-> message]

NotFound == Reply(404, ErrorBody(TRUE, "Unknown user"))
\* router::err
err(message) == Reply(400, ErrorBody(TRUE, message))
OkReply == Reply(200, ErrorBody(FALSE, "OK"))

\* the User the GET route answers for a deleted profile
Suspended(vanity) ==
    [username |-> "Account suspended", vanity |-> vanity, avatar |-> None,
     bio |-> None, email |-> None, birthdate |-> None, deleted |-> TRUE,
     flags |-> 0, verified |-> FALSE]

-----------------------------------------------------------------------------
(* Memcached (database::mem over MemPool) and the Cassandra writes         *)

\* MemPool::get : Err without a connection, else the entry or None
mem_get(key, up) == IF up THEN Ok(cache[key]) ELSE Err("memcached")

\* MemPool::set : the cache after set(key, value), unchanged on Err
mem_set(key, value, up) ==
    IF up THEN [cache EXCEPT ![key] = Some(value)] ELSE cache

\* MemPool::delete : the cache after delete(key), unchanged on Err
mem_delete(key, up) ==
    IF up THEN [cache EXCEPT ![key] = None] ELSE cache

\* the expiration every set passes to the cache
TTL == 300

\* MemPool::set : the entry written lives for TTL time units
mem_set_ttl(key, up) == IF up THEN [ttl EXCEPT ![key] = TTL] ELSE ttl

\* MemPool::delete : a deleted entry has no time left
mem_delete_ttl(key, up) == IF up THEN [ttl EXCEPT ![key] = 0] ELSE ttl

\* mutant: entries outlive their expiration by one time unit
ElapseLate(d) ==
    /\ ttl' = [k \in Vanity |-> IF ttl[k] > d THEN ttl[k] - d ELSE 0]
    /\ cache' = [k \in Vanity |-> IF ttl[k] + 1 > d THEN cache[k] ELSE None]

\* d time units pass: every entry set at least TTL units ago is gone
Elapse(d) ==
    /\ ttl' = [k \in Vanity |-> IF ttl[k] > d THEN ttl[k] - d ELSE 0]
    /\ cache' = [k \in Vanity |-> IF ttl[k] > d THEN cache[k] ELSE None]

\* cassandra::suspend : UPDATE ... SET deleted = true WHERE vanity = ?
suspend(rows) == [i \in DOMAIN rows |-> [rows[i] EXCEPT !.deleted = <<1>>]]

\* cassandra::update_user : the combined write; a birthdate of None leaves
\* the column as it is
update_user(rows, username, avatar, bio, birthdate, phone, email) ==
    [i \in DOMAIN rows |->
        [rows[i] EXCEPT !.username = username,
                        !.avatar = avatar,
                        !.bio = bio,
                        !.birthdate = IF IsSome(birthdate) THEN birthdate ELSE @,
                        !.email = email]]

\* UPDATE accounts.users SET password = ? WHERE vanity = ?
set_password(rows, digest) ==
    [i \in DOMAIN rows |-> [rows[i] EXCEPT !.password = digest]]

-----------------------------------------------------------------------------
(* Requests                                                                *)

Idle == [kind |-> "idle"]

AllIdle == \A q \in Proc : req[q].kind = "idle"

Init ==
    /\ users = [v \in Vanity |-> IF v = "alice" THEN <<AliceRow>> ELSE << >>]
    /\ cache = [v \in Vanity |-> None]
    /\ req = [p \in Proc |-> Idle]
    /\ ttl = [v \in Vanity |-> 0]

\* what a read that starts now may count on: the username that a patch of
\* vanity which has returned OK, each of its writes and its cache delete
\* having succeeded, put in the row, and which the row still holds
PatchedUsername(vanity) ==
    LET returned ==
            {q \in Proc :
                /\ req[q].kind = "patch"
                /\ req[q].vanity = vanity
                /\ req[q].pc = "done"
                /\ req[q].resp = Some(OkReply)
                /\ \A i \in DOMAIN req[q].ops : req[q].ops[i].ok
                /\ IsSome(req[q].body.username)
                /\ users[vanity] # << >>
                /\ users[vanity][1].username = req[q].body.username.val}
    IN IF returned = {} THEN None ELSE Some(users[vanity][1].username)

GetRequest(vanity, requester) ==
    [kind |-> "get", pc |-> "query", vanity |-> vanity,
     requester |-> requester, user |-> EmptyUser, hit |-> FALSE,
     memErr |-> FALSE, got |-> Err("pending"), ops |-> << >>,
     patched |-> PatchedUsername(vanity), resp |-> None]

Finish(r, resp) == [r EXCEPT !.pc = "done", !.resp = Some(resp)]

\* the request issued a write to the store or the cache, which succeeded or not
Issued(r, op, up) == [r EXCEPT !.ops = Append(@, [op |-> op, ok |-> up])]

\* mutant: the deleted branch falls through to the cache write
RouteCachesDeleted(r, result) ==
    IF ~result.ok THEN Finish(r, NotFound)
    ELSE IF result.val.vanity = "" THEN Finish(r, NotFound)
    ELSE [r EXCEPT !.pc = "set", !.user = result.val]

\* router::users::get after get_user returned: the three branches
Route(r, result) ==
    IF ~result.ok THEN Finish(r, NotFound)
    ELSE IF result.val.vanity = "" THEN Finish(r, NotFound)
    ELSE IF result.val.deleted
         THEN Finish(r, Reply(200, Suspended(r.vanity)))
         ELSE [r EXCEPT !.pc = "set", !.user = result.val]

\* get -> get_user -> mem::get : a failure is returned, a hit is decoded
GetCached(p, vanity, requester) ==
    /\ req[p].kind = "idle"
    /\ \E up \in BOOLEAN :
         LET r == GetRequest(vanity, requester)
             got == mem_get(vanity, up)
         IN req' = [req EXCEPT ![p] =
                IF ~got.ok
                THEN Route([r EXCEPT !.memErr = TRUE, !.got = got], got)
                ELSE IF IsSome(got.val)
                     THEN Route([r EXCEPT !.hit = TRUE,
                                          !.got = Ok(from_str(got.val.val))],
                                Ok(from_str(got.val.val)))
                     ELSE r]
    /\ UNCHANGED <<users, cache, ttl>>

\* get_user, cache miss: the queries and the decoding
GetQuery(p) ==
    /\ req[p].kind = "get"
    /\ req[p].pc = "query"
    /\ \E up \in BOOLEAN :
         LET r == req[p]
             result == IF up
                       THEN DecodeUser(QueryUserOrBot(r.vanity),
                                       r.vanity, r.requester)
                       ELSE Err("cassandra")
         IN req' = [req EXCEPT ![p] = Route([r EXCEPT !.got = result], result)]
    /\ UNCHANGED <<users, cache, ttl>>

\* get, last branch: the cache write (its result dropped) and the reply
GetSet(p) ==
    /\ req[p].kind = "get"
    /\ req[p].pc = "set"
    /\ \E up \in BOOLEAN :
         /\ cache' = mem_set(req[p].vanity, to_string(req[p].user), up)
         /\ ttl' = mem_set_ttl(req[p].vanity, up)
         /\ req' = [req EXCEPT ![p] =
                Finish(Issued(req[p], "set", up), Reply(200, req[p].user))]
    /\ UNCHANGED users

-----------------------------------------------------------------------------
(* router::users::patch                                                    *)

\* patch returned Err(e): the `?` on a failed store write
StoreErr == Reply(500, ErrorBody(TRUE, "cdrs error"))

\* is_psw_valid : the supplied password matches the digest read
PswValid(body, row) ==
    IsSome(body.password) /\ hash_test(row.password, body.password.val)

FailsPassword(body, row) ==
    IsSome(body.password) /\ ~hash_test(row.password, body.password.val)

\* mutant: the limit compared with > instead of >=
FailsUsernameOffByOne(body) ==
    IsSome(body.username) /\ Len(body.username.val) > UsernameLimit

FailsUsername(body) ==
    IsSome(body.username) /\ Len(body.username.val) >= UsernameLimit

\* mutant: the bio limit taken one character too high
FailsBioOffByOne(body) ==
    IsSome(body.bio) /\ Len(body.bio.val) > BioLimit + 1

FailsBio(body) ==
    IsSome(body.bio) /\ Len(body.bio.val) > BioLimit

\* mutant: the email check without the is_psw_valid gate
FailsEmailNoGate(body, row) ==
    IsSome(body.email) /\ ~EMAIL_is_match(body.email.val)

FailsEmail(body, row) ==
    /\ IsSome(body.email)
    /\ ~PswValid(body, row) \/ ~EMAIL_is_match(body.email.val)

FailsBirthdate(body) ==
    IsSome(body.birthdate) /\ ~BIRTH_is_match(body.birthdate.val)

\* 13 > get_age(dates[0].parse(), dates[1].parse(), dates[2].parse())
Underage(body) ==
    /\ IsSome(body.birthdate)
    /\ LET dates == SplitDate(body.birthdate.val)
       IN MinAge > get_age(ParseInt(dates[1]), ParseInt(dates[2]),
                           ParseInt(dates[3]))

FailsPhone(body) == IsSome(body.phone)

FailsNewPassword(body, row) ==
    /\ IsSome(body.newpassword)
    /\ ~PswValid(body, row) \/ ~PASSWORD_is_match(body.newpassword.val)

PatchRequest(vanity, body, rows) ==
    [kind |-> "patch", pc |-> "query", vanity |-> vanity, body |-> body,
     res |-> rows, username |-> "", email |-> None, bio |-> None,
     birthdate |-> None, ops |-> << >>, replaced |-> None, resp |-> None]

\* mutant: the birthdate is checked right after the current password
ValidateAgeFirst(r, row) ==
    LET body == r.body IN
    IF FailsPassword(body, row) THEN Finish(r, err("Invalid password"))
    ELSE IF FailsBirthdate(body) THEN Finish(r, err("Invalid birthdate"))
    ELSE IF Underage(body) THEN [r EXCEPT !.pc = "suspend"]
    ELSE IF FailsUsername(body) THEN Finish(r, err("Invalid username"))
    ELSE IF FailsBio(body) THEN Finish(r, err("Invalid bio"))
    ELSE IF FailsEmail(body, row) THEN Finish(r, err("Invalid email"))
    ELSE IF FailsPhone(body)
         THEN Finish(r, err("Phones not implemented yet"))
    ELSE IF FailsNewPassword(body, row)
         THEN Finish(r, err("Invalid password"))
    ELSE [r EXCEPT
            !.pc = IF IsSome(body.newpassword) THEN "password" ELSE "update",
            !.username = IF IsSome(body.username)
                         THEN body.username.val ELSE row.username,
            !.bio = IF IsSome(body.bio) /\ body.bio.val # ""
                    THEN body.bio ELSE None,
            !.email = IF IsSome(body.email)
                      THEN keccak256_hex(body.email.val) ELSE row.email,
            !.birthdate = IF IsSome(body.birthdate)
                          THEN Some(encrypt(body.birthdate.val)) ELSE None]

\* the checks of patch in the order of the code, up to the first store write
Validate(r, row) ==
    LET body == r.body IN
    IF FailsPassword(body, row) THEN Finish(r, err("Invalid password"))
    ELSE IF FailsUsername(body) THEN Finish(r, err("Invalid username"))
    ELSE IF FailsBio(body) THEN Finish(r, err("Invalid bio"))
    ELSE IF FailsEmail(body, row) THEN Finish(r, err("Invalid email"))
    ELSE IF FailsBirthdate(body) THEN Finish(r, err("Invalid birthdate"))
    ELSE IF Underage(body) THEN [r EXCEPT !.pc = "suspend"]
    ELSE IF FailsPhone(body)
         THEN Finish(r, err("Phones not implemented yet"))
    ELSE IF FailsNewPassword(body, row)
         THEN Finish(r, err("Invalid password"))
    ELSE [r EXCEPT
            !.pc = IF IsSome(body.newpassword) THEN "password" ELSE "update",
            !.username = IF IsSome(body.username)
                         THEN body.username.val ELSE row.username,
            !.bio = IF IsSome(body.bio) /\ body.bio.val # ""
                    THEN body.bio ELSE None,
            !.email = IF IsSome(body.email)
                      THEN keccak256_hex(body.email.val) ELSE row.email,
            !.birthdate = IF IsSome(body.birthdate)
                          THEN Some(encrypt(body.birthdate.val)) ELSE None]

\* the baseline query and everything patch computes from it before a write;
\* res[0] of an empty result is an index out of bounds
PatchQuery(p, vanity, body) ==
    /\ req[p].kind = "idle"
    /\ \E up \in BOOLEAN :
         LET r == PatchRequest(vanity, body, users[vanity])
         IN req' = [req EXCEPT ![p] =
                IF ~up THEN Finish([r EXCEPT !.res = << >>], NotFound)
                ELSE IF r.res = << >> THEN [r EXCEPT !.pc = "panicked"]
                ELSE Validate(r, r.res[1])]
    /\ UNCHANGED <<users, cache, ttl>>

\* mutant: the suspension message without the suspension write
PatchSuspendNoWrite(p) ==
    /\ req[p].kind = "patch"
    /\ req[p].pc = "suspend"
    /\ req' = [req EXCEPT ![p] =
           Finish(req[p], err("Your account has been suspended: age"))]
    /\ UNCHANGED <<users, cache, ttl>>

\* suspend(vanity)?; then the suspension message
PatchSuspend(p) ==
    /\ req[p].kind = "patch"
    /\ req[p].pc = "suspend"
    /\ \E up \in BOOLEAN :
         LET r == Issued(req[p], "suspend", up)
         IN /\ users' = IF up
                        THEN [users EXCEPT ![r.vanity] = suspend(@)]
                        ELSE users
            /\ req' = [req EXCEPT ![p] =
                   IF up
                   THEN Finish(r, err("Your account has been suspended: age"))
                   ELSE Finish(r, StoreErr)]
    /\ UNCHANGED <<cache, ttl>>

\* mutant: a failed password write is ignored
PatchPasswordIgnoresErr(p) ==
    /\ req[p].kind = "patch"
    /\ req[p].pc = "password"
    /\ \E up \in BOOLEAN :
         LET r == Issued(req[p], "password", up)
             digest == hash(r.body.newpassword.val)
         IN /\ users' = IF up
                        THEN [users EXCEPT ![r.vanity] = set_password(@, digest)]
                        ELSE users
            /\ req' = [req EXCEPT ![p] =
                   [r EXCEPT !.pc = "update",
                             !.replaced = Some(users[r.vanity][1].password)]]
    /\ UNCHANGED <<cache, ttl>>

\* the write of the password column alone
PatchPassword(p) ==
    /\ req[p].kind = "patch"
    /\ req[p].pc = "password"
    /\ \E up \in BOOLEAN :
         LET r == Issued(req[p], "password", up)
             digest == hash(r.body.newpassword.val)
         IN /\ users' = IF up
                        THEN [users EXCEPT ![r.vanity] = set_password(@, digest)]
                        ELSE users
            /\ req' = [req EXCEPT ![p] =
                   IF up
                   THEN [r EXCEPT !.pc = "update",
                                  !.replaced = Some(users[r.vanity][1].password)]
                   ELSE Finish(r, err("Internal server error"))]
    /\ UNCHANGED <<cache, ttl>>

\* mutant: the combined write also resets the deleted column
PatchUpdateUndeletes(p) ==
    /\ req[p].kind = "patch"
    /\ req[p].pc = "update"
    /\ \E up \in BOOLEAN :
         LET r == Issued(req[p], "update", up)
             rows == update_user(users[r.vanity], r.username, None, r.bio,
                                 r.birthdate, None, r.email)
         IN /\ users' = IF up
                        THEN [users EXCEPT ![r.vanity] =
                                <<[rows[1] EXCEPT !.deleted = <<0>>]>>]
                        ELSE users
            /\ req' = [req EXCEPT ![p] =
                   IF up
                   THEN [r EXCEPT !.pc = "del"]
                   ELSE Finish(r, err("Internal server error"))]
    /\ UNCHANGED <<cache, ttl>>

\* update_user(username, None, bio, birthdate, phone, email, vanity)
PatchUpdate(p) ==
    /\ req[p].kind = "patch"
    /\ req[p].pc = "update"
    /\ \E up \in BOOLEAN :
         LET r == Issued(req[p], "update", up)
         IN /\ users' = IF up
                        THEN [users EXCEPT ![r.vanity] =
                                update_user(@, r.username, None, r.bio,
                                            r.birthdate, None, r.email)]
                        ELSE users
            /\ req' = [req EXCEPT ![p] =
                   IF up
                   THEN [r EXCEPT !.pc = "del"]
                   ELSE Finish(r, err("Internal server error"))]
    /\ UNCHANGED <<cache, ttl>>

\* let _ = del(vanity); then the OK reply
PatchDel(p) ==
    /\ req[p].kind = "patch"
    /\ req[p].pc = "del"
    /\ \E up \in BOOLEAN :
         /\ cache' = mem_delete(req[p].vanity, up)
         /\ ttl' = mem_delete_ttl(req[p].vanity, up)
         /\ req' = [req EXCEPT ![p] =
                Finish(Issued(req[p], "del", up), OkReply)]
    /\ UNCHANGED users

\* the reply has been sent (or the handler has faulted): the slot is free
Return(p) ==
    /\ req[p].kind # "idle"
    /\ req[p].pc \in {"done", "panicked"}
    /\ req' = [req EXCEPT ![p] = Idle]
    /\ UNCHANGED <<users, cache, ttl>>

\* the 300 s TTL of an entry elapses
Expire(key) ==
    /\ IsSome(cache[key])
    /\ Elapse(ttl[key])
    /\ UNCHANGED <<users, req>>

-----------------------------------------------------------------------------
(* A caller of MemPool: set, get and delete of any key, as time passes.    *)

\* the values the caller sets
CacheValues == {to_string(EmptyUser),
                to_string([EmptyUser EXCEPT !.vanity = "alice"])}

\* the time steps of the caller's clock
Ticks == {TTL \div 2, TTL - 1}

\* the caller before its first call. wrote[k] and age[k] are what the last
\* set/delete of k that returned Ok wrote, and how long ago (up to TTL)
MemCaller ==
    [kind |-> "mem", op |-> "none", key |-> "", res |-> Err("pending"),
     wrote |-> [k \in Vanity |-> None], age |-> [k \in Vanity |-> TTL]]

Caller(p) == IF req[p].kind = "mem" THEN req[p] ELSE MemCaller

CanCall(p) == req[p].kind \in {"idle", "mem"}

\* MemPool::set(key, Characters(value))
MemSet(p, key, value) ==
    /\ CanCall(p)
    /\ \E up \in BOOLEAN :
         /\ cache' = mem_set(key, value, up)
         /\ ttl' = mem_set_ttl(key, up)
         /\ req' = [req EXCEPT ![p] =
                [Caller(p) EXCEPT
                    !.op = "set", !.key = key,
                    !.res = IF up THEN Ok(key) ELSE Err("memcached"),
                    !.wrote[key] = IF up THEN Some(value) ELSE @,
                    !.age[key] = IF up THEN 0 ELSE @]]
    /\ UNCHANGED users

\* MemPool::get(key)
MemGet(p, key) ==
    /\ CanCall(p)
    /\ \E up \in BOOLEAN :
         req' = [req EXCEPT ![p] =
             [Caller(p) EXCEPT !.op = "get", !.key = key,
                               !.res = mem_get(key, up)]]
    /\ UNCHANGED <<users, cache, ttl>>

\* MemPool::delete(key)
MemDelete(p, key) ==
    /\ CanCall(p)
    /\ \E up \in BOOLEAN :
         /\ cache' = mem_delete(key, up)
         /\ ttl' = mem_delete_ttl(key, up)
         /\ req' = [req EXCEPT ![p] =
                [Caller(p) EXCEPT
                    !.op = "delete", !.key = key,
                    !.res = IF up THEN Ok("") ELSE Err("memcached"),
                    !.wrote[key] = IF up THEN None ELSE @,
                    !.age[key] = IF up THEN TTL ELSE @]]
    /\ UNCHANGED users

\* d time units pass between two calls
Tick(p, d) ==
    /\ req[p].kind = "mem"
    /\ Elapse(d)
    /\ req' = [req EXCEPT ![p] =
           [Caller(p) EXCEPT
               !.op = "none",
               !.age = [k \in Vanity |->
                           IF @[k] + d < TTL THEN @[k] + d ELSE TTL]]]
    /\ UNCHANGED users

-----------------------------------------------------------------------------
(* Specifications                                                          *)

Step(p) ==
    \/ GetQuery(p)
    \/ GetSet(p)
    \/ PatchSuspend(p)
    \/ PatchPassword(p)
    \/ PatchUpdate(p)
    \/ PatchDel(p)
    \/ Return(p)

\* the request slots are interchangeable: a request takes the lowest free one
Free(p) ==
    /\ req[p].kind = "idle"
    /\ \A q \in 1..(p - 1) : req[q].kind # "idle"

\* one request at a time, any patch body
Next ==
    \/ /\ AllIdle
       /\ \E v \in Vanity, r \in Vanity : GetCached(1, v, r)
    \/ /\ AllIdle
       /\ \E v \in Vanity, b \in PatchBodies : PatchQuery(1, v, b)
    \/ \E p \in Proc : Step(p)
    \/ \E k \in Vanity : Expire(k)

Spec == Init /\ [][Next]_vars

EmptyBody ==
    [password |-> None, username |-> None, bio |-> None, email |-> None,
     birthdate |-> None, phone |-> None, newpassword |-> None]

\* the patch bodies of the concurrent runs: one per path that writes
ConcBodies ==
    {[EmptyBody EXCEPT !.username = Some(NewName)],
     [EmptyBody EXCEPT !.password = Some(OldPassword),
                       !.newpassword = Some(NewPassword)],
     [EmptyBody EXCEPT !.password = Some(OldPassword),
                       !.email = Some(NewEmail)],
     [EmptyBody EXCEPT !.birthdate = Some(YoungBirth)]}

\* requests on "alice" overlapping in any way
ConcNext ==
    \/ \E p \in Proc, r \in Vanity : Free(p) /\ GetCached(p, "alice", r)
    \/ \E p \in Proc, b \in ConcBodies : Free(p) /\ PatchQuery(p, "alice", b)
    \/ \E p \in Proc : Step(p)
    \/ \E k \in Vanity : Expire(k)

ConcSpec == Init /\ [][ConcNext]_vars

\* one caller of MemPool, with time
CacheNext ==
    \/ \E k \in Vanity, v \in CacheValues : MemSet(1, k, v)
    \/ \E k \in Vanity : MemGet(1, k)
    \/ \E k \in Vanity : MemDelete(1, k)
    \/ \E d \in Ticks : Tick(1, d)

CacheSpec == Init /\ [][CacheNext]_vars

-----------------------------------------------------------------------------
(* Properties                                                              *)

GetDone(p) == req[p].kind = "get" /\ req[p].pc = "done"
PatchDone(p) == req[p].kind = "patch" /\ req[p].pc = "done"
Resp(p) == req[p].resp.val
RowOf(v) == users[v][1]
IsDeleted(v) == users[v] # << >> /\ RowOf(v).deleted # <<0>>

\* C1: a read of v by a requester other than v answers neither an email nor
\* a birthdate, from the cache or from the store; a read of v by v decoded
\* from the store answers them when the row has them.
C1_PiiOnlyForOwner ==
    \A p \in Proc :
        GetDone(p) /\ Resp(p).status = 200 =>
            /\ req[p].requester # req[p].vanity =>
                 /\ Resp(p).body.email = None
                 /\ Resp(p).body.birthdate = None
            /\ (/\ req[p].requester = req[p].vanity
                /\ ~req[p].hit
                /\ ~Resp(p).body.deleted) =>
                 /\ IsSome(Resp(p).body.email)
                 /\ IsSome(RowOf(req[p].vanity).birthdate)
                      => IsSome(Resp(p).body.birthdate)

\* C2: while the row of v is deleted, a read of v that answers a profile
\* answers the placeholder "Account suspended", never the real fields.
C2_DeletedReadsPlaceholder ==
    \A p \in Proc :
        (/\ GetDone(p)
         /\ IsDeleted(req[p].vanity)
         /\ Resp(p).status = 200)
        => Resp(p).body = Suspended(req[p].vanity)

\* the replies that report a rejected field
ValidationErrors ==
    {err(m) : m \in {"Invalid password", "Invalid username", "Invalid bio",
                     "Invalid email", "Invalid birthdate",
                     "Phones not implemented yet"}}

SuspendedForAge == err("Your account has been suspended: age")

\* the patch in slot p read a baseline row
Baseline(p) == req[p].kind = "patch" /\ req[p].res # << >>

UsernameTooLong(body) ==
    IsSome(body.username) /\ Len(body.username.val) >= 16

BioTooLong(body) == IsSome(body.bio) /\ Len(body.bio.val) > 160

\* the supplied current password verifies against the baseline digest
Verified(p) ==
    /\ IsSome(req[p].body.password)
    /\ hash_test(req[p].res[1].password, req[p].body.password.val)

\* C3: a patch that answers a validation error other than the suspension
\* issued no store write and left the row as its baseline read found it; a
\* username of 16 characters or more with an under-13 birthdate answers the
\* username error, without a suspension.
C3_NoWriteOnValidationFailure ==
    \A p \in Proc :
        /\ PatchDone(p) /\ Resp(p) \in ValidationErrors =>
             /\ req[p].ops = << >>
             /\ users[req[p].vanity] = req[p].res
        /\ (/\ PatchDone(p)
            /\ Baseline(p)
            /\ UsernameTooLong(req[p].body)
            /\ req[p].body.birthdate = Some(YoungBirth)
            /\ ~IsSome(req[p].body.password) \/ Verified(p)) =>
             /\ Resp(p) = err("Invalid username")
             /\ req[p].ops = << >>
             /\ RowOf(req[p].vanity).deleted = req[p].res[1].deleted

C3_Witness ==
    \E p \in Proc :
        /\ PatchDone(p)
        /\ Resp(p) = err("Invalid username")
        /\ req[p].body.birthdate = Some(YoungBirth)
        /\ req[p].ops = << >>

\* the fields checked before the birthdate pass, and the birthdate is
\* well-formed and gives an age under 13
C4Case(p) ==
    LET body == req[p].body IN
    /\ Baseline(p)
    /\ ~IsSome(body.password) \/ Verified(p)
    /\ ~UsernameTooLong(body)
    /\ ~BioTooLong(body)
    /\ IsSome(body.email) => Verified(p) /\ EMAIL_is_match(body.email.val)
    /\ IsSome(body.birthdate)
    /\ BIRTH_is_match(body.birthdate.val)
    /\ Underage(body)

\* C4: such a patch issues exactly one store write, the suspension, which
\* sets deleted and changes nothing else, and answers SuspendedForAge (the
\* store's error when the suspension write itself fails).
C4_AgeSuspension ==
    \A p \in Proc :
        PatchDone(p) /\ C4Case(p) =>
            /\ Len(req[p].ops) = 1
            /\ req[p].ops[1].op = "suspend"
            /\ req[p].ops[1].ok =>
                 /\ Resp(p) = SuspendedForAge
                 /\ users[req[p].vanity] =
                        <<[req[p].res[1] EXCEPT !.deleted = <<1>>]>>
            /\ ~req[p].ops[1].ok =>
                 /\ Resp(p) = StoreErr
                 /\ users[req[p].vanity] = req[p].res

C4_Witness ==
    \E p \in Proc :
        /\ PatchDone(p)
        /\ C4Case(p)
        /\ IsSome(req[p].body.newpassword)
        /\ Resp(p) = SuspendedForAge
        /\ req[p].res[1].deleted = <<0>>
        /\ IsDeleted(req[p].vanity)

EmailUnchanged(p) == RowOf(req[p].vanity).email = req[p].res[1].email

\* C5 as stated: email without a password answers the email error, email
\* with a password that does not verify answers the password error, the
\* email column is unchanged in both, and it changes only in a patch whose
\* password verified.
C5_Original ==
    \A p \in Proc :
        PatchDone(p) /\ Baseline(p) =>
            /\ IsSome(req[p].body.email) /\ ~IsSome(req[p].body.password) =>
                 Resp(p) = err("Invalid email") /\ EmailUnchanged(p)
            /\ (/\ IsSome(req[p].body.email)
                /\ IsSome(req[p].body.password)
                /\ ~Verified(p)) =>
                 Resp(p) = err("Invalid password") /\ EmailUnchanged(p)
            /\ ~EmailUnchanged(p) => Verified(p)

\* C5, amended: email without a password answers the error of the first of
\* username, bio, email that fails (the email one when username and bio
\* pass); the rest as stated.
C5_EmailNeedsReauth ==
    \A p \in Proc :
        PatchDone(p) /\ Baseline(p) =>
            /\ IsSome(req[p].body.email) /\ ~IsSome(req[p].body.password) =>
                 /\ EmailUnchanged(p)
                 /\ Resp(p) =
                      IF UsernameTooLong(req[p].body)
                      THEN err("Invalid username")
                      ELSE IF BioTooLong(req[p].body)
                           THEN err("Invalid bio")
                           ELSE err("Invalid email")
            /\ (/\ IsSome(req[p].body.email)
                /\ IsSome(req[p].body.password)
                /\ ~Verified(p)) =>
                 Resp(p) = err("Invalid password") /\ EmailUnchanged(p)
            /\ ~EmailUnchanged(p) => Verified(p)

C5_Witness ==
    \E p \in Proc :
        /\ PatchDone(p)
        /\ Baseline(p)
        /\ req[p].body.email = Some(NewEmail)
        /\ ~IsSome(req[p].body.password)
        /\ Resp(p) = err("Invalid email")

\* C6: a patch that answered OK issued the cache delete after the combined
\* write, and the cache holds no entry for its identifier.
C6_OkPatchLeavesNoEntry ==
    \A p \in Proc :
        PatchDone(p) /\ Resp(p) = OkReply =>
            LET n == Len(req[p].ops) IN
            /\ n >= 2
            /\ req[p].ops[n - 1] = [op |-> "update", ok |-> TRUE]
            /\ req[p].ops[n].op = "del"
            /\ cache[req[p].vanity] = None

\* C7: once the row of v is deleted, no step of any request makes it
\* not deleted.
C7_SuspensionOneWay ==
    [][\A v \in Vanity : IsDeleted(v) => IsDeleted(v)']_vars

C7_Witness ==
    \E p \in Proc :
        /\ PatchDone(p)
        /\ Baseline(p)
        /\ req[p].res[1].deleted = <<1>>
        /\ Resp(p) = OkReply
        /\ IsDeleted(req[p].vanity)

\* C8: every cache entry is the snapshot of a profile with a vanity (the
\* key's) that is not deleted; a read that answers NotFound or the deleted
\* placeholder wrote no cache entry.
C8_CacheHoldsLiveProfiles ==
    /\ \A k \in Vanity :
         IsSome(cache[k]) =>
            LET u == from_str(cache[k].val) IN
            u.vanity = k /\ u.vanity # "" /\ ~u.deleted
    /\ \A p \in Proc :
         GetDone(p) /\ (Resp(p).status = 404 \/ Resp(p).body.deleted) =>
            req[p].ops = << >>

C8_Witness ==
    \E p \in Proc :
        /\ GetDone(p)
        /\ ~req[p].hit
        /\ Resp(p) = Reply(200, Suspended(req[p].vanity))
        /\ cache[req[p].vanity] = None

\* the reply to a read that misses the cache, from the rows as they are
MissReply(vanity, requester) ==
    LET result == DecodeUser(QueryUserOrBot(vanity), vanity, requester) IN
    IF ~result.ok \/ result.val.vanity = "" THEN NotFound
    ELSE IF result.val.deleted THEN Reply(200, Suspended(vanity))
    ELSE Reply(200, result.val)

\* C9: a read whose cache get failed answers what a cache miss answers.
C9_CacheFailOpen ==
    \A p \in Proc :
        GetDone(p) /\ req[p].memErr =>
            Resp(p) = MissReply(req[p].vanity, req[p].requester)

\* C10: every write of the password column replaces a digest that the
\* writing patch's supplied current password verifies against.
C10_PasswordReplacedAfterVerify ==
    \A p \in Proc :
        req[p].kind = "patch" /\ IsSome(req[p].replaced) =>
            /\ IsSome(req[p].body.password)
            /\ hash_test(req[p].replaced.val, req[p].body.password.val)


\* C11: a read of an identifier with a row in neither table, whose cache and
\* store calls succeed, has get_user return the empty placeholder (vanity
\* "", not deleted, every field blank), which differs from the deleted
\* placeholder, and writes nothing to the cache, which holds no entry for it.
C11_UnknownReadsEmpty ==
    \A p \in Proc :
        (/\ GetDone(p)
         /\ users[req[p].vanity] = << >>
         /\ bots[req[p].vanity] = << >>
         /\ ~req[p].memErr
         /\ req[p].got # Err("cassandra")) =>
            /\ req[p].got.ok
            /\ LET u == req[p].got.val IN
               /\ u.vanity = "" /\ u.username = "" /\ ~u.deleted
               /\ u.avatar = None /\ u.bio = None
               /\ u.email = None /\ u.birthdate = None
               /\ u.flags = 0 /\ ~u.verified
               /\ u # Suspended(req[p].vanity)
            /\ req[p].ops = << >>
            /\ cache[req[p].vanity] = None

C11_Witness ==
    \E p \in Proc :
        /\ GetDone(p)
        /\ req[p].vanity = "bob"
        /\ req[p].got = Ok(EmptyUser)
        /\ Resp(p) = NotFound

\* C12: a patch whose baseline query resolved to no user row (zero rows, or
\* a failed query) returns NotFound without faulting and has issued no store
\* write and no cache delete.
C12_UnknownPatchNotFound ==
    \A p \in Proc :
        (/\ req[p].kind = "patch"
         /\ req[p].pc \in {"done", "panicked"}
         /\ req[p].res = << >>) =>
            /\ req[p].pc = "done"
            /\ Resp(p) = NotFound
            /\ req[p].ops = << >>

\* C13: in a sequence of MemPool calls, a get(k) that returns Ok returns the
\* value v of the last set(k, v) that returned Ok while fewer than TTL time
\* units have passed since that set and no delete(k) has returned Ok, and
\* returns absent after a delete(k) that returned Ok, or once TTL time units
\* have passed, until the next set(k, _) that returns Ok.
C13_SetGetDelete ==
    \A p \in Proc :
        (/\ req[p].kind = "mem"
         /\ req[p].op = "get"
         /\ req[p].res.ok) =>
            LET k == req[p].key IN
            req[p].res.val = IF req[p].age[k] < TTL
                             THEN req[p].wrote[k]
                             ELSE None

C13_Witness ==
    \E p \in Proc :
        /\ req[p].kind = "mem"
        /\ req[p].op = "get"
        /\ req[p].res.ok
        /\ IsSome(req[p].res.val)
        /\ req[p].age[req[p].key] = TTL - 1

\* the first check of the fixed order that the patch in slot p fails:
\* password, username, bio, email, birthdate format, age, phone, newpassword
FirstFailing(p) ==
    LET body == req[p].body IN
    IF IsSome(body.password) /\ ~Verified(p) THEN "Invalid password"
    ELSE IF UsernameTooLong(body) THEN "Invalid username"
    ELSE IF BioTooLong(body) THEN "Invalid bio"
    ELSE IF /\ IsSome(body.email)
            /\ ~Verified(p) \/ ~EMAIL_is_match(body.email.val)
         THEN "Invalid email"
    ELSE IF IsSome(body.birthdate) /\ ~BIRTH_is_match(body.birthdate.val)
         THEN "Invalid birthdate"
    ELSE IF IsSome(body.birthdate) /\ Underage(body) THEN "age"
    ELSE IF IsSome(body.phone) THEN "Phones not implemented yet"
    ELSE IF /\ IsSome(body.newpassword)
            /\ ~Verified(p) \/ ~PASSWORD_is_match(body.newpassword.val)
         THEN "Invalid password"
    ELSE "none"

\* C14: a patch that read a baseline row answers the error of the first
\* check it fails in the order password, username, bio, email, birthdate
\* format, age, phone, newpassword, and has then issued no write at all;
\* when that first check is the age, the only write is the suspension; a
\* patch failing no check answers no validation error and never suspends.
C14_ValidationOrder ==
    \A p \in Proc :
        Baseline(p) =>
            LET f == FirstFailing(p) IN
            /\ f \notin {"none", "age"} =>
                 /\ PatchDone(p)
                 /\ Resp(p) = err(f)
                 /\ req[p].ops = << >>
                 /\ users[req[p].vanity] = req[p].res
            /\ f = "age" =>
                 \/ req[p].pc = "suspend" /\ req[p].ops = << >>
                 \/ /\ PatchDone(p)
                    /\ Len(req[p].ops) = 1
                    /\ req[p].ops[1].op = "suspend"
                    /\ Resp(p) \in {SuspendedForAge, StoreErr}
            /\ f = "none" =>
                 /\ req[p].pc # "suspend"
                 /\ \A i \in DOMAIN req[p].ops : req[p].ops[i].op # "suspend"
                 /\ PatchDone(p) =>
                      Resp(p) \notin ValidationErrors \cup {SuspendedForAge}

C14_Witness ==
    \E p \in Proc :
        /\ PatchDone(p)
        /\ Baseline(p)
        /\ req[p].body.email = Some(BadEmail)
        /\ req[p].body.birthdate = Some(YoungBirth)
        /\ Resp(p) = err("Invalid email")
        /\ req[p].ops = << >>
        /\ ~IsDeleted(req[p].vanity)

\* C15: a read of v served from the cache, which started after a
\* patch of v's username had returned OK with its store write and its cache
\* delete done, the row still holding that username, answers that username,
\* not the one from before the patch.
C15_NoStaleReadAfterPatch ==
    \A p \in Proc :
        (/\ GetDone(p)
         /\ req[p].hit
         /\ Resp(p).status = 200
         /\ IsSome(req[p].patched)) =>
            Resp(p).body.username = req[p].patched.val

InternalError == err("Internal server error")

C17_PatchFrame ==
    \A p \in Proc :
        (PatchDone(p) /\ Baseline(p) /\ Resp(p) = OkReply) =>
            LET body == req[p].body
                base == req[p].res[1]
                row == RowOf(req[p].vanity)
            IN
            /\ ~IsSome(body.username) => row.username = base.username
            /\ ~IsSome(body.bio) => row.bio = base.bio
            /\ ~IsSome(body.email) => row.email = base.email
            /\ ~IsSome(body.birthdate) => row.birthdate = base.birthdate
            /\ ~IsSome(body.newpassword) => row.password = base.password
            /\ row.deleted = base.deleted
            /\ row.flags = base.flags

\* the username patch and the email patch of two overlapping requests
UsernamePatch == [EmptyBody EXCEPT !.username = Some(NewName)]
EmailPatch == [EmptyBody EXCEPT !.password = Some(OldPassword),
                                !.email = Some(NewEmail)]

\* C18: when a patch changing only the username and a patch changing only
\* the email (with the password that verifies) have both returned OK on the
\* same identifier, each of their store writes having succeeded, the row
\* holds the new username and the hash of the new email.
C18_NoLostUpdate ==
    \A p, q \in Proc :
        (/\ PatchDone(p) /\ PatchDone(q)
         /\ req[p].vanity = req[q].vanity
         /\ req[p].body = UsernamePatch
         /\ req[q].body = EmailPatch
         /\ Resp(p) = OkReply /\ Resp(q) = OkReply) =>
            /\ RowOf(req[p].vanity).username = NewName
            /\ RowOf(req[p].vanity).email = keccak256_hex(NewEmail)

\* the owner's read in slot p went to the store, and the store answered
OwnerReadFromStore(p) ==
    /\ GetDone(p)
    /\ req[p].requester = req[p].vanity
    /\ ~req[p].hit
    /\ ~req[p].memErr
    /\ req[p].got # Err("cassandra")
    /\ users[req[p].vanity] # << >>

\* C19: with one request at a time, once a patch that returned OK has
\* written the birthdate AdultBirth (age 13) or the email NewEmail, the
\* owner's read decoded from the store succeeds and returns that birthdate
\* and that email.
C19_PiiRoundTrip ==
    \A p \in Proc :
        OwnerReadFromStore(p) =>
            LET row == RowOf(req[p].vanity) IN
            /\ row.birthdate = Some(encrypt(AdultBirth)) =>
                 /\ req[p].got.ok
                 /\ req[p].got.val.birthdate = Some(AdultBirth)
            /\ row.email = keccak256_hex(NewEmail) =>
                 /\ req[p].got.ok
                 /\ req[p].got.val.email = Some(NewEmail)

=============================================================================
